---- MODULE Spec2Model ----
(***************************************************************************)
(* The recording and conversation session of the voice chat front-end:    *)
(* the useAudioChat hook, the TalkButton that drives it and the Index      *)
(* page that gates it.                                                     *)
(*                                                                         *)
(* Two revisions of the hook are in the repository.  variant = "chat" is   *)
(* the hook of src/src/hooks/useAudioChat.ts (second definition, with the  *)
(* random-conversation round) under src/src/pages/Index.tsx and            *)
(* src/src/components/TalkButton.tsx; variant = "alt" is the hook of       *)
(* src/unnamed/part_003 (with the manual sample recorder) under the        *)
(* TalkButton of src/unnamed/part_002.                                     *)
(*                                                                         *)
(* React state (useState) is a variable; a closure created by a render     *)
(* keeps the values of the render that created it, so every handler that   *)
(* outlives its render carries a copy of what it captured.  One action is  *)
(* one task of the event loop: a handler up to its first await, or the     *)
(* continuation after an await, a timer callback or an event.              *)
(*                                                                         *)
(* Time is counted in minutes.                                             *)
(***************************************************************************)
EXTENDS Integers, Sequences, FiniteSets, TLC

\* ------------------------------------------------------------ bounds
MaxRounds == 2
MaxRecordings == 2
MaxStreams == 2
MaxTime == 4
MaxSaves == 1
MaxStopTimers == 1
MaxBuffers == 1
MaxChunkBytes == 1536

\* --------------------------------------------------- program constants
CONVERSATION_TIMEOUT == 3
FailureThreshold == 2        \* failed recordings before the automatic switch
ErrorThreshold == 1          \* recorder errors before the automatic switch
MinBlobSize == 1024
WavHeaderSize == 44
ScriptBufferSize == 4096

\* A timer callback runs at its deadline or up to TimerSlack later.
TimerSlack == 1

\* The longest sample array encodeWavFile is given.
MaxSamples == 2

RoundIds == 1..MaxRounds
RecIds == 1..MaxRecordings
StreamIds == 1..MaxStreams

\* Sizes of the chunks a MediaRecorder delivers in a dataavailable event.
ChunkSizes == {0, 512, 1536}

\* Transcripts a transcription response may carry.
Texts == {<<>>, <<" ", " ">>, <<" ", "h", "i", " ">>}

Genders == {"girl", "boy", "other"}
Languages == {"english", "german"}
Names == {"", "Mia"}
Ages == {"", "7"}
FormKeys == {"", "sk-form"}
EnvKeys == {"", "sk-env"}

ChildSettings == [name : Names, age : Ages, gender : Genders,
                  language : Languages, apiKey : FormKeys]

DefaultSettings == [name |-> "", age |-> "", gender |-> "other",
                    language |-> "english", apiKey |-> ""]

\* The fields of ChildSettings, and fields an object in localStorage may
\* have besides: the customPrompt of the old settings format, and another.
KnownFields == {"name", "age", "gender", "language", "apiKey"}
LegacyFields == {"customPrompt", "theme"}

\* The profile c with the fields X besides.
WithFields(c, X) ==
    [f \in DOMAIN c \cup X |-> IF f \in DOMAIN c THEN c[f] ELSE "legacy"]

\* The item of localStorage: absent, or JSON text, held as the object the text
\* parses to (every value is a string, so stringify and parse give it back).
NoItem == [present |-> FALSE, value |-> <<>>]
Item(obj) == [present |-> TRUE, value |-> obj]
StoredItems ==
    {NoItem} \cup {Item(WithFields(c, X)) : c \in ChildSettings, X \in SUBSET LegacyFields}

\* A profile as a previous session may have persisted it.
StoredSettings == [name |-> "Mia", age |-> "7", gender |-> "girl",
                   language |-> "english", apiKey |-> "sk-form"]

VARIABLES
    variant,                 \* which revision of the hook runs
    ios,                     \* isIOS()
    envKey,                  \* import.meta.env.VITE_OPENAI_API_KEY
    settings,                \* Index: useState<ChildSettings>
    saves,                   \* number of times the settings form was saved
    isRecording,             \* useState
    isLoading,               \* useState
    conversationMessages,    \* useState<ConversationMessage[]>
    isPressed,               \* TalkButton: useState
    randomGuard,             \* isRecording/isLoading as startRandomConversation captured them
    streamRef,               \* 0 = null, else a stream id
    mediaRecorderRef,        \* 0 = null, else the id of a MediaRecorder
    altRecorderRef,          \* 0 = null, else the id of an AudioRecorder
    audioChunks,             \* audioChunksRef: total bytes of the chunks held
    lastInteractionTime,     \* lastInteractionTimeRef
    conversationTimeout,     \* time the pending reset timer was armed, -1 = none pending
    recordingFailureCount,   \* recordingFailureCountRef
    useAlternativeRecording, \* module-level flag
    audioInitialized,        \* audioInitializedRef
    streams,                 \* every MediaStream: "none" | "live" | "ended"
    recs,                    \* every startRecording call and the encoder it made
    rounds,                  \* every inference round
    initPending,             \* initializeMicrophone calls (mount, first touch) awaiting getUserMedia
    stopTimers,              \* pending stop-delay timeouts of stopRecording
    postChecks,              \* pending iOS post-stop checks
    now,                     \* Date.now()
    released,                \* history: a page-hide/unload was handled, no recording started since
    submitted,               \* history: transcription requests issued per recording
    streak,                  \* history: consecutive successful voice rounds since the last clear
    mounted,                 \* the component is mounted
    storage,                 \* localStorage 'childSettings': the object its JSON text parses to
    encoded,                 \* a call of encodeWavFile: its arguments and the file it returns
    cleared,                 \* history: the rounds whose turns a clear has removed
    testing,                 \* per stream: the test recorder of initializeMicrophone is recording
    constructionFailures,    \* history: attempts in a row in which no MediaRecorder could be made
    switched,                \* history: what changed the recording method in the last step
    attempt,                 \* history: the encoder the last step's startRecording got
    toastError,              \* history: the last step called toast.error
    voiced,                  \* history: what the last step gave the child to hear
    heard,                   \* history: the transcription response the last step handled
    capture,                 \* history: the recording the last step completed
    lastClear                \* history: what made the last step empty a non-empty conversation

vars == <<variant, ios, envKey, settings, saves, isRecording, isLoading,
          conversationMessages, isPressed, randomGuard, streamRef,
          mediaRecorderRef, altRecorderRef, audioChunks, lastInteractionTime,
          conversationTimeout, recordingFailureCount, useAlternativeRecording,
          audioInitialized, streams, recs, rounds, initPending, stopTimers,
          postChecks, now, released, submitted, streak, mounted, storage,
          encoded, cleared, testing, constructionFailures, switched, attempt, toastError, voiced,
          heard, capture, lastClear>>

\* what: "audio" (the returned audio plays), "reply" (the reply text spoken by
\* speech synthesis, no audio returned), "fallback" (the reply text spoken
\* after play() was rejected), "apology" (the apology spoken);
\* lang: the language of the utterance.
NoVoice == [what |-> "none", lang |-> "english"]
\* A transcription response: status is "ok" (a success status), "http" (a
\* failure status) or "network" (fetch rejected); text is the text field of
\* the body, a sequence of characters.
NoResponse == [status |-> "none", text |-> <<>>]
NoCapture == [path |-> "none", size |-> 0, sent |-> FALSE, error |-> FALSE]

\* The whole state as one record, so that a handler is a function from state
\* to state and handlers compose the way the code calls them.
St ==
    [variant |-> variant, ios |-> ios, envKey |-> envKey, settings |-> settings,
     saves |-> saves, isRecording |-> isRecording, isLoading |-> isLoading,
     conversationMessages |-> conversationMessages, isPressed |-> isPressed,
     randomGuard |-> randomGuard, streamRef |-> streamRef,
     mediaRecorderRef |-> mediaRecorderRef, altRecorderRef |-> altRecorderRef,
     audioChunks |-> audioChunks, lastInteractionTime |-> lastInteractionTime,
     conversationTimeout |-> conversationTimeout,
     recordingFailureCount |-> recordingFailureCount,
     useAlternativeRecording |-> useAlternativeRecording,
     audioInitialized |-> audioInitialized, streams |-> streams, recs |-> recs,
     rounds |-> rounds, initPending |-> initPending, stopTimers |-> stopTimers,
     postChecks |-> postChecks, now |-> now, released |-> released,
     submitted |-> submitted, streak |-> streak, mounted |-> mounted,
     storage |-> storage, encoded |-> encoded, cleared |-> cleared,
     testing |-> testing, constructionFailures |-> constructionFailures,
     \* what the step does: set while a handler runs
     switched |-> "none",     \* "auto" or "manual": what changed the recording method
     attempt |-> "none",      \* the encoder a startRecording call obtained
     voiced |-> NoVoice,      \* what the step played or spoke
     heard |-> NoResponse,    \* the transcription response the step handled
     capture |-> NoCapture,   \* the recording the step completed
     lastClear |-> "none",    \* what made the step empty a non-empty conversation
     overflow |-> FALSE,      \* the step needs an id beyond the bounds
     toastError |-> FALSE]    \* the step called toast.error

\* ------------------------------------------------------------ records
NoClosure == [conv |-> <<>>, language |-> "english", gender |-> "other",
              apiKey |-> ""]

\* A startRecording call: pc is "none" (not made), "await1"/"await2" (awaiting
\* initializeMicrophone), "rec" (MediaRecorder recording), "stopped"
\* (MediaRecorder inactive, its dataavailable and stop events queued), "alt"
\* (AudioRecorder made), "dead" (over); a call that ends without an encoder
\* leaves no record.  cl is what the processAudio of the
\* render that made the call captured; buf counts the sample buffers held and
\* on is the AudioRecorder's isRecording closure variable, prop the isRecording
\* property of the object createAudioContextRecorder returns (a copy made when
\* the object is built), ctx whether its AudioContext is open.
NoRec == [pc |-> "none", stream |-> 0, cl |-> NoClosure, buf |-> 0, on |-> FALSE,
          prop |-> FALSE, ctx |-> FALSE]

\* JavaScript's null, and choices[0].message of a chat response: its content
\* (a text, "" or null), whether audio.id is present, and audio.transcript
\* (a text or absent).
Null == "null"
NoMessage == [content |-> Null, id |-> FALSE, transcript |-> Null]
Messages == [content : {Null, "", "text"}, id : BOOLEAN,
             transcript : {Null, "transcript"}]


\* An inference round: pc is "none", "stt" (transcription request pending),
\* "chat" (chat request pending), "play" (audio.play() pending), "done",
\* "failed" (nothing committed), "undecoded" (committed, then the catch block
\* ran).  before, idle and size are history: the stored conversation when the
\* round started, the minutes since the last successful round at that moment
\* (-1 when there was none), the size of the blob.
\* message and reply are the message of the chat response and the content of
\* the assistant turn stored for it.
NoRound == [pc |-> "none", kind |-> "voice", cl |-> NoClosure, rec |-> 0,
            awaited |-> FALSE, before |-> <<>>, idle |-> -1, size |-> 0,
            voice |-> "none", message |-> NoMessage, reply |-> Null]

InFlight == {"stt", "chat", "play"}
Committed == {"play", "done", "undecoded"}
Over == {"done", "failed", "undecoded"}

System == [role |-> "system", content |-> 0]
User(r) == [role |-> "user", content |-> r]
Assistant(r) == [role |-> "assistant", content |-> r]

Min(S) == CHOOSE x \in S : \A y \in S : x <= y
FreeIds(f) == {k \in DOMAIN f : f[k].pc = "none"}
FreeStreams(s) == {k \in StreamIds : s.streams[k] = "none"}

\* ------------------------------------------------------ conversation
\* getOpenAIApiKey() || settings.apiKey
ApiKey(env, form) == IF env # "" THEN env ELSE form

isValidAudioBlob(size) == size > MinBlobSize

HadSuccess(s) == \E r \in RoundIds : s.rounds[r].pc \in Committed

\* Minutes since the last successful round, -1 when there was none.
Idle(s) == IF HadSuccess(s) THEN s.now - s.lastInteractionTime ELSE -1

\* What the closures of the current render hold.
Capture(s) ==
    [conv |-> s.conversationMessages, language |-> s.settings.language,
     gender |-> s.settings.gender, apiKey |-> s.settings.apiKey]

\* The rounds whose turns are in a sequence of messages.
Turns(messages) ==
    {messages[i].content : i \in {j \in 1..Len(messages) : messages[j].role # "system"}}

\* setConversationMessages([])
Clear(s, why) ==
    [s EXCEPT !.conversationMessages = <<>>,
              !.cleared = @ \cup Turns(s.conversationMessages),
              !.streak = 0,
              !.lastClear = IF s.conversationMessages # <<>> THEN why ELSE @]

resetConversationIfNeeded(s) ==
    IF s.now - s.lastInteractionTime > CONVERSATION_TIMEOUT
    THEN Clear(s, "timeout")
    ELSE s

scheduleConversationReset(s) ==
    [s EXCEPT !.conversationTimeout = s.now, !.lastInteractionTime = s.now]

clearConversation(s) == Clear(s, "manual")

\* The end of a round: the finally block of processAudio or of
\* startRandomConversation, and the finally block of the stopRecording call
\* that awaits the round on the manual path.
roundEnds(s, r, pc) ==
    [s EXCEPT !.rounds[r] = [NoRound EXCEPT !.pc = pc, !.kind = s.rounds[r].kind],
              !.isLoading = FALSE,
              !.isRecording = IF s.rounds[r].awaited THEN FALSE ELSE @]

\* A SpeechSynthesisUtterance of round r: its language is that of the
\* settings the round's closure holds.
speak(s, r, what) ==
    [s EXCEPT !.voiced = [what |-> what, lang |-> s.rounds[r].cl.language]]

\* The catch block of a round: the error toast and the spoken apology.
roundFails(s, r, pc) ==
    roundEnds(speak([s EXCEPT !.toastError = TRUE], r, "apology"), r, pc)

\* processAudio up to its first network await.
processAudio(s, size, cl, rec, awaited) ==
    LET r == Min(FreeIds(s.rounds))
        rd == [pc |-> "stt", kind |-> "voice", cl |-> cl, rec |-> rec,
               awaited |-> awaited, before |-> s.conversationMessages,
               idle |-> Idle(s), size |-> size, voice |-> "none",
               message |-> NoMessage, reply |-> Null]
        s1 == resetConversationIfNeeded([s EXCEPT !.isLoading = TRUE])
        s2 == [s1 EXCEPT !.rounds[r] = rd]
    IN  IF FreeIds(s.rounds) = {} THEN [s EXCEPT !.overflow = TRUE]
        ELSE IF ApiKey(s.envKey, cl.apiKey) = "" \/ ~isValidAudioBlob(size)
        THEN roundFails(s2, r, "failed")
        ELSE [s2 EXCEPT !.submitted[rec] = @ + 1]

\* The voice in the audio settings of a chat request.
Voice_TwoWay(gender) == IF gender = "girl" THEN "shimmer" ELSE "echo"

Voice(gender) ==
    IF gender = "girl" THEN "shimmer"
    ELSE IF gender = "boy" THEN "echo" ELSE "alloy"

\* The key in the Authorization header of the requests of a round.
Authorization(s, rd) == ApiKey(s.envKey, rd.cl.apiKey)

\* The messages of the chat request of round r.
ChatMessages(rd, r) ==
    IF rd.kind = "voice" /\ Len(rd.cl.conv) > 0
    THEN <<System>> \o rd.cl.conv \o <<User(r)>>
    ELSE <<System, User(r)>>

\* String.prototype.trim on a sequence of characters.
RECURSIVE trimStart(_)
trimStart(t) == IF t # <<>> /\ Head(t) = " " THEN trimStart(Tail(t)) ELSE t

RECURSIVE trimEnd(_)
trimEnd(t) ==
    IF t # <<>> /\ t[Len(t)] = " " THEN trimEnd(SubSeq(t, 1, Len(t) - 1)) ELSE t

trim(t) == trimEnd(trimStart(t))

\* The transcription response as it would be handled if only an empty text
\* were rejected.
transcribed_EmptyOnly(s, r, status, text) ==
    LET s1 == [s EXCEPT !.heard = [status |-> status, text |-> text]]
    IN  IF status = "ok" /\ text # <<>>
        THEN [s1 EXCEPT !.rounds[r].pc = "chat",
                        !.rounds[r].voice = Voice(s.rounds[r].cl.gender)]
        ELSE roundFails(s1, r, "failed")

\* The transcription response: the chat request follows a success status
\* with a text that is not blank; anything else throws.
transcribed(s, r, status, text) ==
    LET s1 == [s EXCEPT !.heard = [status |-> status, text |-> text]]
    IN  IF status = "ok" /\ ~(text = <<>> \/ trim(text) = <<>>)
        THEN [s1 EXCEPT !.rounds[r].pc = "chat",
                        !.rounds[r].voice = Voice(s.rounds[r].cl.gender)]
        ELSE roundFails(s1, r, "failed")

\* The conversation as it would be stored if the messages of the request were
\* kept with the reply.
updatedConversation_FromRequest(rd, r) == ChatMessages(rd, r) \o <<Assistant(r)>>

\* The conversation a successful round stores.
updatedConversation(rd, r) ==
    IF rd.kind = "voice"
    THEN rd.cl.conv \o <<User(r), Assistant(r)>>
    ELSE <<User(r), Assistant(r)>>

\* The round's setConversationMessages and scheduleConversationReset.  The
\* streak counts the round when it is a voice round that follows the previous
\* counted round (or the clear) with no write to the conversation while it
\* ran, and began fewer than CONVERSATION_TIMEOUT minutes after that round.
commitTurns(s, r) ==
    LET rd == s.rounds[r]
        counted == /\ rd.kind = "voice"
                   /\ s.streak >= 0
                   /\ rd.before = s.conversationMessages
                   /\ \/ s.streak = 0
                      \/ rd.idle \in 0..(CONVERSATION_TIMEOUT - 1)
    IN  scheduleConversationReset(
            [s EXCEPT !.conversationMessages = updatedConversation(rd, r),
                      !.streak = IF counted THEN s.streak + 1 ELSE -1])

\* x || "" for a text or null.
OrEmpty(x) == IF x = Null \/ x = "" THEN "" ELSE x

\* The content of newAssistantMessage: responseText, replaced by the
\* transcript when the message has an audio id, the content is null and a
\* transcript is present.
newAssistantMessage(message) ==
    LET responseText == OrEmpty(message.content)
    IN  IF /\ message.id
           /\ responseText = Null
           /\ message.transcript \notin {Null, ""}
        THEN message.transcript
        ELSE responseText

\* The round's response message and the assistant content built from it.
received(s, r, message) ==
    [s EXCEPT !.rounds[r].message = message,
              !.rounds[r].reply = newAssistantMessage(message)]

\* A response with a text content, and an audio object when audio is returned.
TextMessage(audio) ==
    [content |-> "text", id |-> audio # "none",
     transcript |-> IF audio # "none" THEN "transcript" ELSE Null]

\* The chat response with the given message: a failure status, or a success
\* whose audio data is absent ("none"), decodable ("ok") or not decodable by
\* atob ("bad").
completedWith(s, r, ok, audio, message) ==
    IF ~ok THEN roundFails(s, r, "failed")
    ELSE LET s1 == commitTurns(received(s, r, message), r)
         IN  CASE audio = "none" -> roundEnds(speak(s1, r, "reply"), r, "done")
               [] audio = "bad" -> roundFails(s1, r, "undecoded")
               [] OTHER -> [s1 EXCEPT !.rounds[r].pc = "play"]

\* The response as it would be handled if the reply text were spoken before
\* the returned audio is played.
completed_SpeaksFirst(s, r, ok, audio) ==
    IF ~ok THEN roundFails(s, r, "failed")
    ELSE LET s1 == commitTurns(received(s, r, TextMessage(audio)), r)
         IN  CASE audio = "none" -> roundEnds(speak(s1, r, "reply"), r, "done")
               [] audio = "bad" -> roundFails(s1, r, "undecoded")
               [] OTHER -> speak([s1 EXCEPT !.rounds[r].pc = "play"], r, "reply")

\* The chat response: a failure status, or a success whose audio is absent
\* ("none"), decodable ("ok") or not decodable by atob ("bad").
completed(s, r, ok, audio) ==
    completedWith(s, r, ok, audio, TextMessage(audio))

\* audio.play() settled: the audio plays (ok), or the promise is rejected and
\* the reply is spoken instead.
played(s, r, ok) ==
    IF ok THEN roundEnds([s EXCEPT !.voiced = [what |-> "audio",
                                               lang |-> s.rounds[r].cl.language]],
                         r, "done")
    ELSE roundEnds(speak(s, r, "fallback"), r, "done")

\* startRandomConversation up to its network await.
startRandomConversation(s) ==
    LET r == Min(FreeIds(s.rounds))
        rd == [pc |-> "chat", kind |-> "random", cl |-> Capture(s), rec |-> 0,
               awaited |-> FALSE, before |-> s.conversationMessages,
               idle |-> Idle(s), size |-> 0, voice |-> Voice(s.settings.gender),
               message |-> NoMessage, reply |-> Null]
        s1 == resetConversationIfNeeded([s EXCEPT !.isLoading = TRUE])
        s2 == [s1 EXCEPT !.rounds[r] = rd]
    IN  IF s.randomGuard.isRecording \/ s.randomGuard.isLoading THEN s
        ELSE IF FreeIds(s.rounds) = {} THEN [s EXCEPT !.overflow = TRUE]
        ELSE IF ApiKey(s.envKey, s.settings.apiKey) = ""
        THEN roundFails(s2, r, "failed")
        ELSE s2

\* The effect as it would be with only settings.language in its dependencies.
settingsEffect_LanguageOnly(s, old) ==
    IF s.settings.language # old.language /\ Len(s.conversationMessages) > 0
    THEN Clear(s, "settings")
    ELSE s

\* The hook's effect on [settings.language, settings.gender].
settingsEffect(s, old) ==
    IF (s.settings.language # old.language \/ s.settings.gender # old.gender)
       /\ Len(s.conversationMessages) > 0
    THEN Clear(s, "settings")
    ELSE s

\* Index: setSettings, then the effect; startRandomConversation is made anew
\* for the new settings.
\* The initializer of the settings state of Index: what it returns, and what
\* it leaves in localStorage.
loadSettings(item) ==
    LET parsed == item.value
        rest == [f \in DOMAIN parsed \ {"customPrompt"} |-> parsed[f]]
    IN  IF ~item.present THEN [settings |-> DefaultSettings, item |-> item]
        ELSE IF "customPrompt" \in DOMAIN parsed
        THEN [settings |-> rest, item |-> Item(rest)]
        ELSE [settings |-> parsed, item |-> item]

\* The first render of Index: the settings are loaded, the hook is created,
\* and the effects run: the settings are persisted, and off iOS the
\* microphone is requested.
mountIndex(s) ==
    LET l == loadSettings(s.storage)
    IN  [s EXCEPT !.settings = l.settings,
                  !.storage = Item(l.settings),
                  !.mounted = TRUE,
                  !.initPending = IF s.ios THEN 0 ELSE 1]

setSettings(s, new) ==
    settingsEffect(
        [s EXCEPT !.settings = new,
                  !.storage = Item(new),
                  !.saves = @ + 1,
                  !.randomGuard = [isRecording |-> s.isRecording,
                                   isLoading |-> s.isLoading]],
        s.settings)

\* -------------------------------------------------------- microphone
Healthy(s) == s.streamRef # 0 /\ s.streams[s.streamRef] = "live"

\* Every track of stream id stops; a MediaRecorder recording a stream whose
\* tracks have all ended is inactivated by the browser, which queues its
\* dataavailable and stop events (the test recorder has no handlers).
stopTracks(s, id) ==
    [s EXCEPT !.streams[id] = "ended",
              !.testing[id] = FALSE,
              !.recs = [k \in RecIds |->
                          IF s.recs[k].pc = "rec" /\ s.recs[k].stream = id
                          THEN [s.recs[k] EXCEPT !.pc = "stopped"]
                          ELSE s.recs[k]]]

\* initializeMicrophone after getUserMedia resolved: the new stream replaces
\* the reference held, and a test recorder is started on it for 100 ms.
\* testOk: the test recorder can be constructed; if it cannot, the call ends
\* in its catch block with the stream held.
micGranted(s, testOk) ==
    LET n == Min(FreeStreams(s))
    IN  IF FreeStreams(s) = {} THEN [s EXCEPT !.overflow = TRUE]
        ELSE [s EXCEPT !.streams[n] = "live", !.streamRef = n,
                       !.testing[n] = testOk,
                       !.toastError = ~testOk]

\* The 100 ms timer of initializeMicrophone: testRecorder.stop().
testRecorderStops(s, n) == [s EXCEPT !.testing[n] = FALSE]

\* The cleanup of the mount effect.  On iOS the effect has returned the
\* cleanup that removes the interaction listeners, and nothing else.
mountCleanup(s) ==
    LET m == s.mediaRecorderRef
        s1 == IF m # 0 /\ s.recs[m].pc = "rec"
              THEN [s EXCEPT !.recs[m].pc = "stopped"]
              ELSE s
        s2 == IF s1.streamRef # 0 THEN stopTracks(s1, s1.streamRef) ELSE s1
    IN  IF s.ios THEN [s EXCEPT !.mounted = FALSE]
        ELSE [s2 EXCEPT !.conversationTimeout = -1, !.mounted = FALSE]

\* initializeMicrophone after getUserMedia rejected.
micDenied(s) == [s EXCEPT !.toastError = TRUE]

releaseAudioResources(s) ==
    LET m == s.mediaRecorderRef
        a == s.altRecorderRef
        s1 == IF m # 0 /\ s.recs[m].pc = "rec"
              THEN [s EXCEPT !.recs[m].pc = "stopped"]
              ELSE s
        s2 == IF a # 0 /\ s1.recs[a].prop
              THEN [s1 EXCEPT !.recs[a].on = FALSE, !.recs[a].ctx = FALSE,
                              !.altRecorderRef = 0]
              ELSE s1
        s3 == [s2 EXCEPT !.mediaRecorderRef = 0]
        s4 == IF s3.streamRef # 0
              THEN [stopTracks(s3, s3.streamRef) EXCEPT !.streamRef = 0]
              ELSE s3
    IN  [s4 EXCEPT !.isRecording = FALSE]

\* --------------------------------------------------------- recording
\* encodeWavFile: the size of the blob for a number of samples.
encodeWavFile(samples) == WavHeaderSize + samples * 2

\* A Float32 sample: NaN, or v thousandths.
NaN == [nan |-> TRUE, v |-> 0]
Float(x) == [nan |-> FALSE, v |-> x]

\* DataView.setUint32, setUint16 and setInt16 store a number modulo 2^32 or
\* 2^16, its fraction cut off; NaN is stored as 0.
Trunc(n, d) == IF n < 0 THEN -((-n) \div d) ELSE n \div d
Uint32(n) == (((n \div 65536) % 65536) * 65536) + (n % 65536)
Uint16(n) == n % 65536
Int16(n) == IF n % 65536 >= 32768 THEN (n % 65536) - 65536 ELSE n % 65536

\* The conversion as it would be without the clamp.
toPcm_Unclamped(x) ==
    LET y == x.v * 9
    IN  IF x.nan THEN 0
        ELSE IF y < 0 THEN Trunc(y * 32768, 10000) ELSE Trunc(y * 32767, 10000)

\* The number encodeWavFile hands to setInt16 for a sample, its fraction cut
\* off: the sample times the volume 0.9 in ten-thousandths, clamped to -1..1,
\* times 0x8000 below zero and 0x7FFF otherwise.  Math.min and Math.max give
\* NaN for NaN, which is not below zero.
toPcm(x) ==
    LET scaled == x.v * 9
        y == IF scaled > 10000 THEN 10000
             ELSE IF scaled < -10000 THEN -10000 ELSE scaled
    IN  IF x.nan THEN 0
        ELSE IF y < 0 THEN Trunc(y * 32768, 10000) ELSE Trunc(y * 32767, 10000)

\* encodeWavFile: the fields of the header and the samples of the file.
NoFile == [byteLength |-> 0]
WavFile(samples, sampleRate) ==
    [byteLength |-> encodeWavFile(Len(samples)),
     riffSize |-> Uint32(36 + Len(samples) * 2),
     fmtSize |-> Uint32(16),
     format |-> Uint16(1),
     channels |-> Uint16(1),
     sampleRate |-> Uint32(sampleRate),
     byteRate |-> Uint32(sampleRate * 2),
     blockAlign |-> Uint16(2),
     bitsPerSample |-> Uint16(16),
     dataSize |-> Uint32(Len(samples) * 2),
     data |-> [i \in 1..Len(samples) |-> Int16(toPcm(samples[i]))]]

\* The strategy-failure counter of the onstop handler and of the post-stop check.
countAgainst(s, threshold) ==
    IF s.variant = "alt" /\ s.ios /\ ~s.useAlternativeRecording
    THEN IF s.recordingFailureCount + 1 >= threshold
         THEN [s EXCEPT !.recordingFailureCount = @ + 1,
                        !.useAlternativeRecording = TRUE,
                        !.switched = "auto"]
         ELSE [s EXCEPT !.recordingFailureCount = @ + 1]
    ELSE s

countFailure(s) == countAgainst(s, FailureThreshold)

\* The onerror handler of MediaRecorder k; the browser has inactivated the
\* recorder and queues its dataavailable and stop events.
onerror(s, k) ==
    countAgainst([s EXCEPT !.recs[k].pc = "stopped",
                           !.toastError = TRUE,
                           !.isRecording = FALSE], ErrorThreshold)

\* The rest of startRecording as it would be if it went for a MediaRecorder
\* whatever the recording method selected.
beginCapture_ChunkedOnly(s, k, mrOk, altOk, altOk2) ==
    IF mrOk
    THEN [s EXCEPT !.mediaRecorderRef = k,
                   !.attempt = "chunked",
                   !.constructionFailures = 0,
                   !.recs[k].pc = "rec",
                   !.recs[k].stream = s.streamRef,
                   !.isRecording = TRUE]
    ELSE [s EXCEPT !.recs[k] = NoRec,
                   !.attempt = "failed",
                   !.isRecording = FALSE,
                   !.toastError = TRUE]

\* The rest of startRecording once a healthy stream is held: the manual
\* recorder where it is selected, else a MediaRecorder.  mrOk: a MediaRecorder
\* can be constructed; altOk, altOk2: createAudioContextRecorder succeeds.
\* attempt records "manual", "chunked", "fallback" (a MediaRecorder because
\* the manual recorder selected could not be started) or "failed".
beginCapture(s, k, mrOk, altOk, altOk2) ==
    LET manual == s.variant = "alt" /\ s.ios
        failed(t) == [t EXCEPT !.constructionFailures =
                                   IF @ < FailureThreshold THEN @ + 1 ELSE @]
        viaAlt(t) == [t EXCEPT !.altRecorderRef = k,
                               !.attempt = "manual",
                               !.recs[k].pc = "alt",
                               !.recs[k].on = TRUE,
                               !.recs[k].ctx = TRUE,
                               !.recs[k].stream = t.streamRef,
                               !.isRecording = TRUE]
        viaMR(t) == [t EXCEPT !.mediaRecorderRef = k,
                              !.attempt = IF manual /\ s.useAlternativeRecording
                                          THEN "fallback" ELSE "chunked",
                              !.constructionFailures = 0,
                              !.recs[k].pc = "rec",
                              !.recs[k].stream = t.streamRef,
                              !.isRecording = TRUE]
        thrown(t) == [t EXCEPT !.recs[k] = NoRec,
                               !.attempt = "failed",
                               !.isRecording = FALSE,
                               !.toastError = TRUE]
        fallback == [s EXCEPT !.useAlternativeRecording = TRUE,
                              !.switched = IF s.useAlternativeRecording
                                           THEN "none" ELSE "auto"]
    IN  IF manual /\ s.useAlternativeRecording /\ altOk
        THEN viaAlt([s EXCEPT !.constructionFailures = 0])
        ELSE IF mrOk THEN viaMR(s)
        ELSE IF manual /\ altOk2 THEN viaAlt(failed(fallback))
        ELSE IF manual THEN thrown(failed(fallback))
        ELSE thrown(failed(s))

\* startRecording as it would be without the check of the tracks of the
\* stream held.
startRecording_Unchecked(s, mrOk, altOk, altOk2) ==
    LET k == Min(FreeIds(s.recs))
        s0 == [s EXCEPT !.audioChunks = 0,
                        !.audioInitialized = IF s.ios THEN TRUE ELSE @,
                        !.recs[k] = [NoRec EXCEPT !.cl = Capture(s)]]
    IN  IF FreeIds(s.recs) = {} THEN [s EXCEPT !.overflow = TRUE]
        ELSE IF s.ios \/ s.streamRef = 0 THEN [s0 EXCEPT !.recs[k].pc = "await1"]
        ELSE beginCapture(s0, k, mrOk, altOk, altOk2)

\* startRecording up to its first await.
startRecording(s, mrOk, altOk, altOk2) ==
    LET k == Min(FreeIds(s.recs))
        s0 == [s EXCEPT !.audioChunks = 0,
                        !.audioInitialized = IF s.ios THEN TRUE ELSE @,
                        !.recs[k] = [NoRec EXCEPT !.cl = Capture(s)]]
    IN  IF FreeIds(s.recs) = {} THEN [s EXCEPT !.overflow = TRUE]
        ELSE IF s.ios \/ s.streamRef = 0 THEN [s0 EXCEPT !.recs[k].pc = "await1"]
        ELSE IF ~Healthy(s) THEN [s0 EXCEPT !.recs[k].pc = "await2"]
        ELSE beginCapture(s0, k, mrOk, altOk, altOk2)

\* startRecording after an awaited initializeMicrophone settled.
micSettled(s, k, granted, testOk, mrOk, altOk, altOk2) ==
    LET s1 == IF granted THEN micGranted(s, testOk) ELSE micDenied(s)
    IN  IF s1.overflow THEN s1
        ELSE IF granted /\ testOk THEN beginCapture(s1, k, mrOk, altOk, altOk2)
        ELSE [s1 EXCEPT !.recs[k] = NoRec,
                        !.isRecording = FALSE,
                        !.toastError = TRUE]

\* ondataavailable: only a chunk of size > 0 is kept.
ondataavailable(s, c) == [s EXCEPT !.audioChunks = @ + c]

\* The history of the recording that has just completed.
Completed(s, t, path, size, rec) ==
    [t EXCEPT !.capture = [path |-> path, size |-> size,
                           sent |-> t.submitted[rec] > s.submitted[rec],
                           error |-> t.toastError]]

\* The onstop handler as it would be if a short recording were dropped without
\* a notification.
onstopSized_Silent(s, k, size) ==
    IF size > 0
    THEN IF size < MinBlobSize
         THEN countFailure(s)
         ELSE processAudio(s, size, s.recs[k].cl, k, FALSE)
    ELSE countFailure([s EXCEPT !.toastError = TRUE])

\* The onstop handler of a MediaRecorder, for the bytes held in audioChunksRef.
onstopSized(s, k, size) ==
    IF size > 0
    THEN IF size < MinBlobSize
         THEN countFailure([s EXCEPT !.toastError = TRUE])
         ELSE processAudio(s, size, s.recs[k].cl, k, FALSE)
    ELSE countFailure([s EXCEPT !.toastError = TRUE])

\* The dataavailable and stop events of MediaRecorder k: the last chunk, then
\* the onstop handler.
onstop(s, k, c) ==
    LET s1 == ondataavailable(s, c)
        s2 == [s1 EXCEPT !.recs[k] = [NoRec EXCEPT !.pc = "dead"]]
        s3 == onstopSized([s2 EXCEPT !.recs[k].cl = s.recs[k].cl], k, s1.audioChunks)
    IN  IF s3.overflow THEN s3
        ELSE Completed(s, [s3 EXCEPT !.recs[k].cl = NoClosure], "chunked",
                       s1.audioChunks, k)

\* stopAlternativeRecording: the size of the blob, 0 for null.
stopAlternativeRecording(s, k) ==
    LET wav == encodeWavFile(s.recs[k].buf * ScriptBufferSize)
    IN  IF wav < MinBlobSize THEN 0 ELSE wav

\* stopRecording up to its first await or timeout.
stopRecording(s) ==
    LET a == s.altRecorderRef
        m == s.mediaRecorderRef
    IN  IF s.variant = "alt" /\ s.ios /\ s.useAlternativeRecording /\ a # 0
        THEN LET s1 == [s EXCEPT !.recs[a].on = FALSE]
                 blob == stopAlternativeRecording(s, a)
                 s2 == IF blob # 0
                       THEN processAudio(s1, blob, Capture(s), a, TRUE)
                       ELSE [s1 EXCEPT !.toastError = TRUE, !.isRecording = FALSE]
             IN  IF s2.overflow THEN s2
                 ELSE Completed(s, s2, "manual",
                                encodeWavFile(s.recs[a].buf * ScriptBufferSize), a)
        ELSE IF m # 0 /\ s.recs[m].pc = "rec"
        THEN IF s.stopTimers = MaxStopTimers THEN [s EXCEPT !.overflow = TRUE]
             ELSE [s EXCEPT !.stopTimers = @ + 1]
        ELSE [s EXCEPT !.isRecording = FALSE]

\* The stop-delay timeout of stopRecording.  throws: MediaRecorder.stop() on
\* an inactive recorder raises InvalidStateError (older browsers) instead of
\* returning.
stopDelayElapsed(s, throws) ==
    LET m == s.mediaRecorderRef
        s1 == [s EXCEPT !.stopTimers = @ - 1]
        check(t) == IF t.ios
                    THEN IF t.postChecks = MaxStopTimers THEN [t EXCEPT !.overflow = TRUE]
                         ELSE [t EXCEPT !.postChecks = @ + 1]
                    ELSE t
    IN  IF m = 0 THEN [s1 EXCEPT !.isRecording = FALSE]
        ELSE IF s.recs[m].pc = "rec"
        THEN [check([s1 EXCEPT !.recs[m].pc = "stopped"]) EXCEPT !.isRecording = FALSE]
        ELSE IF throws THEN s1
        ELSE [check(s1) EXCEPT !.isRecording = FALSE]

\* The iOS post-stop check.
postStopCheck(s) ==
    LET s1 == [s EXCEPT !.postChecks = @ - 1]
    IN  IF s.audioChunks = 0
        THEN countFailure([s1 EXCEPT !.toastError = TRUE])
        ELSE s1

\* onaudioprocess of AudioRecorder k: one more buffer of samples.
onaudioprocess(s, k) ==
    IF s.recs[k].on THEN [s EXCEPT !.recs[k].buf = @ + 1] ELSE s

\* The visibilitychange handler, for a page that has become hidden.
handleVisibilityChange(s) ==
    LET s1 == IF s.isRecording THEN stopRecording(s) ELSE s
    IN  IF s1.overflow THEN s1
        ELSE [releaseAudioResources(s1) EXCEPT !.released = TRUE]

\* resetRecordingMethod: the manual override of the recording method.
resetRecordingMethod(s) ==
    releaseAudioResources([s EXCEPT !.useAlternativeRecording = ~@,
                                    !.recordingFailureCount = 0,
                                    !.switched = "manual"])

\* The beforeunload and pagehide handler.
handleBeforeUnload(s) == [releaseAudioResources(s) EXCEPT !.released = TRUE]

\* ------------------------------------------------------------ the page
\* Index.areSettingsConfigured
areSettingsConfigured(s) ==
    /\ ApiKey(s.envKey, s.settings.apiKey) # ""
    /\ s.settings.name # ""
    /\ s.settings.age # ""

\* The talk button and the random button take input.
ButtonEnabled(s) == ~s.isLoading /\ areSettingsConfigured(s)

\* What the form is saved with: one field edited, or the whole profile filled.
FormEntries(old) ==
    {new \in ChildSettings :
        \/ new = StoredSettings
        \/ Cardinality({f \in DOMAIN old : new[f] # old[f]}) = 1}

\* Nothing that takes milliseconds is pending: a stop delay, a post-stop
\* check, the queued events of a stopped MediaRecorder.
Quiet(s) ==
    /\ s.stopTimers = 0
    /\ s.postChecks = 0
    /\ \A n \in StreamIds : ~s.testing[n]
    /\ \A k \in RecIds : s.recs[k].pc # "stopped"

\* ------------------------------------------------------------ actions
\* The step ends in state s.
Set(s) ==
    /\ ~s.overflow
    /\ variant' = s.variant
    /\ ios' = s.ios
    /\ envKey' = s.envKey
    /\ settings' = s.settings
    /\ saves' = s.saves
    /\ isRecording' = s.isRecording
    /\ isLoading' = s.isLoading
    /\ conversationMessages' = s.conversationMessages
    /\ isPressed' = s.isPressed
    /\ randomGuard' = s.randomGuard
    /\ streamRef' = s.streamRef
    /\ mediaRecorderRef' = s.mediaRecorderRef
    /\ altRecorderRef' = s.altRecorderRef
    /\ audioChunks' = s.audioChunks
    /\ lastInteractionTime' = s.lastInteractionTime
    /\ conversationTimeout' = s.conversationTimeout
    /\ recordingFailureCount' = s.recordingFailureCount
    /\ useAlternativeRecording' = s.useAlternativeRecording
    /\ audioInitialized' = s.audioInitialized
    /\ streams' = s.streams
    /\ recs' = s.recs
    /\ rounds' = s.rounds
    /\ initPending' = s.initPending
    /\ stopTimers' = s.stopTimers
    /\ postChecks' = s.postChecks
    /\ now' = s.now
    /\ released' = s.released
    /\ submitted' = s.submitted
    /\ streak' = s.streak
    /\ mounted' = s.mounted
    /\ storage' = s.storage
    /\ encoded' = s.encoded
    /\ cleared' = s.cleared
    /\ testing' = s.testing
    /\ constructionFailures' = s.constructionFailures
    /\ switched' = s.switched
    /\ attempt' = s.attempt
    /\ toastError' = s.toastError
    /\ voiced' = s.voiced
    /\ heard' = s.heard
    /\ capture' = s.capture
    /\ lastClear' = s.lastClear

\* TalkButton: mousedown or touchstart on the button.
Press ==
    /\ mounted
    /\ ~isPressed
    /\ ButtonEnabled(St)
    /\ \E mrOk, altOk, altOk2 \in BOOLEAN :
          Set(startRecording([St EXCEPT !.isPressed = TRUE, !.released = FALSE],
                             mrOk, altOk, altOk2))

\* TalkButton: the pointer is released; the window listener calls onStop, and
\* so does the button's own handler when the release is over the button.
Release ==
    /\ mounted
    /\ isPressed
    /\ \E twice \in BOOLEAN :
          LET s1 == stopRecording([St EXCEPT !.isPressed = FALSE])
          IN  IF twice /\ ButtonEnabled(St) /\ ~s1.overflow
              THEN Set(stopRecording(s1))
              ELSE Set(s1)

\* An awaited initializeMicrophone of startRecording call k settles.
MicResolve ==
    \E k \in RecIds, granted, testOk, mrOk, altOk, altOk2 \in BOOLEAN :
        /\ recs[k].pc \in {"await1", "await2"}
        /\ Set(micSettled(St, k, granted, testOk, mrOk, altOk, altOk2))

\* The initializeMicrophone of the mount effect or of the first touch settles.
InitResolve ==
    /\ initPending > 0
    /\ \E granted, testOk \in BOOLEAN :
          LET s1 == [St EXCEPT !.initPending = @ - 1]
          IN  Set(IF granted THEN micGranted(s1, testOk) ELSE micDenied(s1))

\* The browser ends the tracks of a stream (the device goes away, the
\* permission is withdrawn): readyState is no longer 'live'.
TrackEnded ==
    \E n \in StreamIds :
        /\ streams[n] = "live"
        /\ Set(stopTracks(St, n))

\* encodeWavFile is called with the samples recorded and returns the file.
EncodeWav ==
    /\ encoded.file = NoFile
    /\ \E s \in {[St EXCEPT !.encoded.file =
                               WavFile(encoded.samples, encoded.sampleRate)]} :
          Set(s)

\* The page is opened: Index renders for the first time.
Mount ==
    /\ ~mounted
    /\ \E s \in {mountIndex(St)} : Set(s)

\* The 100 ms timer of a test recorder fires.
TestRecorderStops ==
    \E n \in StreamIds :
        /\ testing[n]
        /\ Set(testRecorderStops(St, n))

\* MediaRecorder k reports an error while recording.
RecorderError ==
    \E k \in RecIds :
        /\ recs[k].pc = "rec"
        /\ Set(onerror(St, k))

\* TalkButton: the recording-method button is clicked.
ToggleMethod ==
    /\ mounted
    /\ variant = "alt"
    /\ \E s \in {resetRecordingMethod(St)} : Set(s)

\* The component that uses the hook unmounts.
Unmount ==
    /\ mounted
    /\ \E s \in {mountCleanup(St)} : Set(s)

\* iOS: the first touch or click anywhere on the page.
UserInteraction ==
    /\ mounted
    /\ ios
    /\ ~audioInitialized
    /\ Set([St EXCEPT !.audioInitialized = TRUE, !.initPending = @ + 1])

DataAvailable ==
    \E k \in RecIds, c \in ChunkSizes :
        /\ recs[k].pc = "rec"
        /\ audioChunks + c <= MaxChunkBytes
        /\ Set(ondataavailable(St, c))

OnStop ==
    \E k \in RecIds, c \in ChunkSizes :
        /\ recs[k].pc = "stopped"
        /\ audioChunks + c <= MaxChunkBytes
        /\ Set(onstop(St, k, c))

StopDelayElapsed ==
    /\ stopTimers > 0
    /\ \E throws \in BOOLEAN : Set(stopDelayElapsed(St, throws))

PostStopCheck ==
    /\ postChecks > 0
    /\ Set(postStopCheck(St))

AudioProcess ==
    \E k \in RecIds :
        /\ recs[k].pc = "alt"
        /\ recs[k].on
        /\ recs[k].buf < MaxBuffers
        /\ Set(onaudioprocess(St, k))

TranscriptionResponse ==
    \E r \in RoundIds, status \in {"ok", "http", "network"}, text \in Texts :
        /\ rounds[r].pc = "stt"
        /\ status # "ok" => text = <<>>
        /\ Set(transcribed(St, r, status, text))

ChatResponse ==
    \E r \in RoundIds, ok \in BOOLEAN, audio \in {"none", "ok", "bad"} :
        /\ rounds[r].pc = "chat"
        /\ Set(completed(St, r, ok, audio))

\* The chat response of a round with any message.
ChatResponseOf ==
    \E r \in RoundIds, audio \in {"none", "ok"}, message \in Messages :
        /\ rounds[r].pc = "chat"
        /\ Set(completedWith(St, r, TRUE, audio, message))

PlaybackSettled ==
    \E r \in RoundIds, ok \in BOOLEAN :
        /\ rounds[r].pc = "play"
        /\ Set(played(St, r, ok))

\* RandomButton: a click.
ClickRandom ==
    /\ mounted
    /\ variant = "chat"
    /\ ButtonEnabled(St)
    /\ Set(startRandomConversation(St))

\* SettingsPanel: the form is saved.
SaveSettings ==
    /\ mounted
    /\ saves < MaxSaves
    /\ \E new \in FormEntries(settings) :
          /\ new # settings
          /\ envKey # "" => new.apiKey = settings.apiKey
          /\ Set(setSettings(St, new))

\* SettingsPanel: another gender is selected and the form is saved.
SaveGender ==
    /\ mounted
    /\ saves < MaxSaves
    /\ \E g \in Genders :
          /\ g # settings.gender
          /\ Set(setSettings(St, [settings EXCEPT !.gender = g]))

\* A minute passes.  Recordings and requests take seconds, so it passes while
\* none is under way; a due timer callback is not held back beyond TimerSlack.
Tick ==
    /\ now < MaxTime
    /\ Quiet(St)
    /\ ~isPressed
    /\ \A r \in RoundIds : rounds[r].pc \notin InFlight
    /\ \A k \in RecIds : recs[k].pc \notin {"await1", "await2"}
    /\ \/ conversationTimeout = -1
       \/ now < conversationTimeout + CONVERSATION_TIMEOUT + TimerSlack
    /\ Set([St EXCEPT !.now = @ + 1])

\* The callback of the timer scheduleConversationReset armed.
ResetTimerFires ==
    /\ conversationTimeout >= 0
    /\ now >= conversationTimeout + CONVERSATION_TIMEOUT
    /\ Set(resetConversationIfNeeded([St EXCEPT !.conversationTimeout = -1]))

\* visibilitychange to hidden.
PageHidden ==
    /\ mounted
    /\ \E s \in {handleVisibilityChange(St)} : Set(s)

\* beforeunload or pagehide.
PageUnload ==
    /\ mounted
    /\ \E s \in {handleBeforeUnload(St)} : Set(s)

\* The state after the hook has mounted, for a build and a device; granted:
\* the getUserMedia of the mount effect has been answered with a stream.
Begin(v, i, e, stored, granted, item, up) ==
    /\ variant = v
    /\ ios = i
    /\ envKey = e
    /\ settings = stored
    /\ saves = 0
    /\ isRecording = FALSE
    /\ isLoading = FALSE
    /\ conversationMessages = <<>>
    /\ isPressed = FALSE
    /\ randomGuard = [isRecording |-> FALSE, isLoading |-> FALSE]
    /\ streamRef = IF granted THEN 1 ELSE 0
    /\ mediaRecorderRef = 0
    /\ altRecorderRef = 0
    /\ audioChunks = 0
    /\ lastInteractionTime = 0
    /\ conversationTimeout = -1
    /\ recordingFailureCount = 0
    /\ useAlternativeRecording = (v = "alt" /\ i)
    /\ audioInitialized = FALSE
    /\ streams = [n \in StreamIds |-> IF granted /\ n = 1 THEN "live" ELSE "none"]
    /\ recs = [k \in RecIds |-> NoRec]
    /\ rounds = [r \in RoundIds |-> NoRound]
    /\ initPending = IF i \/ granted \/ ~up THEN 0 ELSE 1
    /\ stopTimers = 0
    /\ postChecks = 0
    /\ now = 0
    /\ released = FALSE
    /\ submitted = [k \in RecIds |-> 0]
    /\ streak = 0
    /\ mounted = up
    /\ storage = item
    /\ cleared = {}
    /\ testing = [n \in StreamIds |-> FALSE]
    /\ constructionFailures = 0
    /\ switched = "none"
    /\ attempt = "none"
    /\ toastError = FALSE
    /\ voiced = NoVoice
    /\ heard = NoResponse
    /\ capture = NoCapture
    /\ lastClear = "none"

NoCall == [samples |-> <<>>, sampleRate |-> 0, file |-> NoFile]

\* The page after its first render, with the profile stored and persisted.
Start(v, i, e, stored, granted) ==
    /\ Begin(v, i, e, stored, granted, Item(stored), TRUE)
    /\ encoded = NoCall

Init ==
    \E v \in {"chat", "alt"}, i \in BOOLEAN, e \in EnvKeys,
       stored \in {DefaultSettings, StoredSettings} : Start(v, i, e, stored, FALSE)

Next ==
    \/ Press
    \/ Release
    \/ MicResolve
    \/ InitResolve
    \/ UserInteraction
    \/ DataAvailable
    \/ OnStop
    \/ StopDelayElapsed
    \/ PostStopCheck
    \/ AudioProcess
    \/ TranscriptionResponse
    \/ ChatResponse
    \/ PlaybackSettled
    \/ ClickRandom
    \/ SaveSettings
    \/ Tick
    \/ ResetTimerFires
    \/ PageHidden
    \/ PageUnload
    \/ TestRecorderStops
    \/ Unmount
    \/ RecorderError
    \/ ToggleMethod
    \/ TrackEnded

Spec == Init /\ [][Next]_vars

\* The specifications below restrict Init and Next to one part of the hook
\* each; every behaviour of theirs is a behaviour of Spec.

\* The conversation on a desktop browser: the hook with the random round, a
\* stored profile, the microphone granted to the mount effect, the page kept
\* open.
InitChat == Start("chat", FALSE, "sk-env", StoredSettings, TRUE)

NextChat ==
    \/ Press
    \/ Release
    \/ OnStop
    \/ StopDelayElapsed
    \/ TranscriptionResponse
    \/ ChatResponse
    \/ PlaybackSettled
    \/ ClickRandom
    \/ SaveSettings
    \/ Tick
    \/ ResetTimerFires

SpecChat == InitChat /\ [][NextChat]_vars

\* Recording and the microphone on every build and device, with a fixed
\* profile and within one timeout period.
InitRecording ==
    \E v \in {"chat", "alt"}, i \in BOOLEAN : Start(v, i, "sk-env", StoredSettings, FALSE)

NextRecording ==
    \/ Press
    \/ Release
    \/ MicResolve
    \/ InitResolve
    \/ UserInteraction
    \/ DataAvailable
    \/ OnStop
    \/ StopDelayElapsed
    \/ PostStopCheck
    \/ AudioProcess
    \/ TranscriptionResponse
    \/ PageHidden
    \/ PageUnload
    \/ TestRecorderStops

SpecRecording == InitRecording /\ [][NextRecording]_vars

\* Capture alone: a recording from the press to the blob handed over or
\* rejected, on every build and device, the page kept open.
\* Starting recordings while streams come and go: the microphone is granted
\* or denied, the browser ends a stream.
InitAcquire ==
    \E i \in BOOLEAN : Start("chat", i, "sk-env", StoredSettings, FALSE)

NextAcquire ==
    \/ Press
    \/ Release
    \/ MicResolve
    \/ InitResolve
    \/ StopDelayElapsed
    \/ TrackEnded

SpecAcquire == InitAcquire /\ [][NextAcquire]_vars

NextCapture ==
    \/ Press
    \/ Release
    \/ MicResolve
    \/ InitResolve
    \/ UserInteraction
    \/ DataAvailable
    \/ OnStop
    \/ StopDelayElapsed
    \/ PostStopCheck
    \/ AudioProcess
    \/ TranscriptionResponse
    \/ TestRecorderStops

SpecCapture == InitRecording /\ [][NextCapture]_vars

\* The payload of a recording alone: recordings that start and stop, the
\* whole payload arriving with the recorder's last chunk, no response yet.
NextPayload ==
    \/ Press
    \/ Release
    \/ MicResolve
    \/ OnStop
    \/ StopDelayElapsed
    \/ AudioProcess

SpecPayload == InitRecording /\ [][NextPayload]_vars

\* Capture and the end of the hook's life: the component may unmount at any
\* moment of a recording.
NextTeardown ==
    \/ NextCapture
    \/ Unmount

SpecTeardown == InitRecording /\ [][NextTeardown]_vars

\* The recording method of the revision that has the manual recorder, on
\* either device: recorder errors and the manual override besides capture.
InitStrategy == \E i \in BOOLEAN : Start("alt", i, "sk-env", StoredSettings, FALSE)

NextStrategy ==
    \/ NextCapture
    \/ RecorderError
    \/ ToggleMethod

SpecStrategy == InitStrategy /\ [][NextStrategy]_vars

\* The choice of the encoder on iOS, where the manual recorder exists:
\* recordings that start, fail and are stopped, and the manual override; the
\* events of a stopped MediaRecorder are left undelivered.
InitMethod == Start("alt", TRUE, "sk-env", StoredSettings, FALSE)

NextMethod ==
    \/ Press
    \/ Release
    \/ MicResolve
    \/ StopDelayElapsed
    \/ PostStopCheck
    \/ RecorderError
    \/ ToggleMethod

SpecMethod == InitMethod /\ [][NextMethod]_vars

\* A session whose pending work always gets done: every promise settles,
\* every timer fires, every queued recorder event is delivered, and a button
\* that is held is released.  When the user presses, what the microphone
\* delivers and whether a recorder breaks stay open.
NextSession ==
    \/ NextCapture
    \/ ChatResponse
    \/ PlaybackSettled
    \/ RecorderError

SpecSession ==
    /\ InitRecording
    /\ [][NextSession]_vars
    /\ WF_vars(Release)
    /\ WF_vars(MicResolve)
    /\ WF_vars(InitResolve)
    /\ WF_vars(TestRecorderStops)
    /\ WF_vars(OnStop)
    /\ WF_vars(StopDelayElapsed)
    /\ WF_vars(PostStopCheck)
    /\ WF_vars(TranscriptionResponse)
    /\ WF_vars(ChatResponse)
    /\ WF_vars(PlaybackSettled)

\* Voice rounds alone on a desktop browser: recordings and the requests and
\* the playback that follow them, with a fixed profile, within one timeout
\* period.
NextRound ==
    \/ Press
    \/ Release
    \/ OnStop
    \/ StopDelayElapsed
    \/ TranscriptionResponse
    \/ ChatResponse
    \/ PlaybackSettled

SpecRound == InitChat /\ [][NextRound]_vars

\* Voice rounds and random rounds with a fixed profile, within one timeout
\* period, up to the stored conversation: playback is left out.
NextTurns ==
    \/ Press
    \/ Release
    \/ OnStop
    \/ StopDelayElapsed
    \/ TranscriptionResponse
    \/ ChatResponse
    \/ ClickRandom

SpecTurns == InitChat /\ [][NextTurns]_vars

\* Voice rounds whose chat responses carry any message.
NextReply ==
    \/ Press
    \/ Release
    \/ OnStop
    \/ StopDelayElapsed
    \/ TranscriptionResponse
    \/ ChatResponseOf
    \/ PlaybackSettled

SpecReply == InitChat /\ [][NextReply]_vars

\* The profile form against a conversation that random rounds fill and the
\* timeout empties.
\* The page with or without a key in the environment: voice rounds, random
\* rounds and the settings form.
InitKey == \E e \in EnvKeys : Start("chat", FALSE, e, StoredSettings, TRUE)

NextKey ==
    \/ NextRound
    \/ ClickRandom
    \/ SaveSettings

SpecKey == InitKey /\ [][NextKey]_vars

\* Opening the page over what localStorage holds.
InitLoad ==
    \E i \in BOOLEAN, item \in StoredItems :
        /\ Begin("chat", i, "sk-env", DefaultSettings, FALSE, item, FALSE)
        /\ encoded = NoCall

NextLoad == Mount

SpecLoad == InitLoad /\ [][NextLoad]_vars

\* Chat requests of voice rounds and random rounds while the profile changes.
NextVoice ==
    \/ Press
    \/ Release
    \/ StopDelayElapsed
    \/ OnStop
    \/ TranscriptionResponse
    \/ ClickRandom
    \/ SaveGender

SpecVoice == InitChat /\ [][NextVoice]_vars

\* encodeWavFile over the samples a manual recording may hold.
SampleValues ==
    {NaN} \cup {Float(x) : x \in {-2000, -1112, -1000, -1, 0, 1, 1000, 1112, 2000}}
SampleRates == {44100, 48000}

RECURSIVE SeqsUpTo(_, _)
SeqsUpTo(S, n) ==
    IF n = 0 THEN {<<>>}
    ELSE LET shorter == SeqsUpTo(S, n - 1)
         IN  shorter \cup {Append(q, x) : q \in shorter, x \in S}

InitWav ==
    /\ Begin("alt", TRUE, "sk-env", StoredSettings, TRUE, Item(StoredSettings), TRUE)
    /\ \E samples \in SeqsUpTo(SampleValues, MaxSamples), rate \in SampleRates :
          encoded = [samples |-> samples, sampleRate |-> rate, file |-> NoFile]

NextWav == EncodeWav

SpecWav == InitWav /\ [][NextWav]_vars

\* TalkButton: the first press since the page was opened.
FirstPress ==
    /\ \A k \in RecIds : recs[k].pc = "none"
    /\ Press

\* One press and its release around the acquisition of the microphone, with
\* everything that is pending bound to happen: the release of a held button,
\* the answer of getUserMedia, timers and recorder events.
NextTap ==
    \/ FirstPress
    \/ Release
    \/ MicResolve
    \/ InitResolve
    \/ TestRecorderStops
    \/ DataAvailable
    \/ OnStop
    \/ StopDelayElapsed
    \/ PostStopCheck

SpecTap ==
    /\ InitAcquire
    /\ [][NextTap]_vars
    /\ WF_vars(Release)
    /\ WF_vars(MicResolve)
    /\ WF_vars(InitResolve)
    /\ WF_vars(TestRecorderStops)
    /\ WF_vars(OnStop)
    /\ WF_vars(StopDelayElapsed)
    /\ WF_vars(PostStopCheck)

NextSettings ==
    \/ ClickRandom
    \/ ChatResponse
    \/ PlaybackSettled
    \/ SaveSettings
    \/ Tick
    \/ ResetTimerFires

SpecSettings == InitChat /\ [][NextSettings]_vars

\* ------------------------------------------------------------- claims
IsPrefix(a, b) == Len(a) <= Len(b) /\ SubSeq(b, 1, Len(a)) = a

\* Round r stores its turns in this step.
Commits(r) == rounds[r].pc = "chat" /\ rounds'[r].pc \in Committed

\* Round r fails in this step.
Fails(r) == rounds[r].pc \notin Over /\ rounds'[r].pc \in {"failed", "undecoded"}

\* C1: a voice round that succeeds leaves the conversation as the turns that
\* were stored, unchanged and in order, followed by the round's user turn and
\* then its assistant turn.
C1_AppendsTwoTurns ==
    [][\A r \in RoundIds :
          rounds[r].kind = "voice" /\ Commits(r)
          => conversationMessages' =
                conversationMessages \o <<User(r), Assistant(r)>>]_vars

\* C2: a voice round that fails, at whatever stage, leaves the conversation
\* as it was when the round started (rounds during which something else
\* wrote the conversation are left aside).
C2_FailureKeepsConversation ==
    [][\A r \in RoundIds :
          /\ rounds'[r].kind = "voice"
          /\ Fails(r)
          /\ rounds[r].pc # "none" => rounds[r].before = conversationMessages
          => conversationMessages' = conversationMessages]_vars

\* C3: a completed recording, chunked or manual, whose payload is below 1024
\* bytes issues no transcription request (hence no chat request) and is
\* reported as an error.
C3_UndersizedRejected ==
    capture.path # "none" /\ capture.size < MinBlobSize
    => ~capture.sent /\ capture.error

C3_Witness ==
    /\ capture.path = "chunked"
    /\ capture.size > 0
    /\ capture.size < MinBlobSize
    /\ capture.error

\* C4: a voice round processed three minutes or more after the last
\* successful round sends only the system prompt and the new user turn, and
\* when it succeeds the conversation is exactly its two turns.
C4_TimeoutStartsAfresh ==
    [][\A r \in RoundIds :
          rounds[r].kind = "voice" /\ rounds[r].idle >= CONVERSATION_TIMEOUT
          => /\ rounds[r].pc = "stt" /\ rounds'[r].pc = "chat"
                => ChatMessages(rounds[r], r) = <<System, User(r)>>
             /\ Commits(r)
                => conversationMessages' = <<User(r), Assistant(r)>>]_vars

\* C5: after k successful voice rounds in a row, each begun fewer than three
\* minutes after the one before succeeded and with no clear in between, the
\* conversation is 2k turns, user and assistant alternating, in the order of
\* the rounds.
C5_StreakHoldsTwoPerRound ==
    streak >= 1
    => /\ Len(conversationMessages) = 2 * streak
       /\ \A i \in 1..Len(conversationMessages) :
             conversationMessages[i].role =
                IF i % 2 = 1 THEN "user" ELSE "assistant"
       /\ \A i \in 1..streak :
             conversationMessages[2 * i].content =
                conversationMessages[2 * i - 1].content
       /\ \A i, j \in 1..Len(conversationMessages) :
             i < j => conversationMessages[i].content
                         <= conversationMessages[j].content

\* C6: a change of language or of gender while the conversation is not empty
\* empties the conversation in the same update.
C6_ProfileChangeClears ==
    [][/\ \/ settings'.language # settings.language
          \/ settings'.gender # settings.gender
       /\ conversationMessages # <<>>
       => conversationMessages' = <<>>]_vars

C6_Witness == lastClear = "settings"

\* C7: every write of a successful round, voice or random, extends the
\* conversation that was stored: the previous sequence is a prefix of the
\* new one.
C7_RoundsOnlyAppend ==
    [][\A r \in RoundIds :
          Commits(r) => IsPrefix(conversationMessages, conversationMessages')]_vars

\* C8: at most one inference round has a request pending at any time.
C8_OneRoundInFlight ==
    Cardinality({r \in RoundIds : rounds[r].pc \in {"stt", "chat"}}) <= 1

\* C9: the blob of a completed recording is handed to transcription at most
\* once, however often stopRecording runs.
C9_SubmittedOnce == \A k \in RecIds : submitted[k] <= 1

\* C10: once a page-hide or unload has been handled, and until the user
\* starts a recording, the hook references no stream and no stream it
\* acquired has a live track.
C10_ReleasedMeansNoMicrophone ==
    released => streamRef = 0 /\ \A n \in StreamIds : streams[n] # "live"
\* A recorder that reads the microphone: a MediaRecorder in the recording
\* state or a manual recorder whose script processor is connected.
Reading(r) == r.pc = "rec" \/ (r.pc = "alt" /\ r.on)

\* C11: when the component unmounts, no recorder is left recording and the
\* tracks of the stream the hook holds are stopped, whatever the device.
C11_UnmountStopsCapture ==
    [][mounted /\ ~mounted' =>
          /\ \A k \in RecIds : ~Reading(recs'[k])
          /\ streamRef # 0 => streams'[streamRef] # "live"]_vars

\* C12: the microphone stream is a singleton; at most one stream the hook
\* acquired has live tracks at any time.
C12_OneLiveStream ==
    Cardinality({n \in StreamIds : streams[n] = "live"}) <= 1

\* The encoders reading a microphone stream: recorders of startRecording
\* calls and test recorders.
Encoders ==
    Cardinality({k \in RecIds : Reading(recs[k])})
        + Cardinality({n \in StreamIds : testing[n]})

\* C13: at most one encoder, the test recorder included, is recording at any
\* time.
C13_OneEncoderReads == Encoders <= 1

\* C14: when the manual override runs, every encoder that exists is released
\* by it: no MediaRecorder is left recording, a manual recorder is stopped
\* and its audio context closed, and the hook references no encoder.
C14_OverrideReleasesEncoder ==
    [][switched' = "manual" =>
          /\ \A k \in RecIds : ~Reading(recs'[k]) /\ ~recs'[k].ctx
          /\ mediaRecorderRef' = 0
          /\ altRecorderRef' = 0]_vars

\* C15: where the hook starts with the chunked encoder, once two attempts in
\* a row have failed to construct it, the next attempt that comes to choose
\* an encoder records with the manual sample recorder.
C15_TwoConstructionFailuresSwitch ==
    [][/\ ~(variant = "alt" /\ ios)
       /\ constructionFailures = FailureThreshold
       /\ attempt' # "none"
       => attempt' = "manual"]_vars

\* C16: the failure counter counts failures in a row; a recording with the
\* chunked encoder that is handed to transcription leaves it at 0.
C16_SuccessResetsCounter ==
    [][capture'.path = "chunked" /\ capture'.sent => recordingFailureCount' = 0]_vars

\* C17: in standard mode a recording with the chunked encoder that completes
\* with an empty or undersized payload is not handed to transcription and
\* adds exactly one to the failure counter.
C17_UndersizedCountsOnce ==
    [][/\ variant = "alt"
       /\ ~useAlternativeRecording
       /\ capture'.path = "chunked"
       /\ capture'.size < MinBlobSize
       => /\ ~capture'.sent
          /\ recordingFailureCount' = recordingFailureCount + 1]_vars

\* The manual recorder is the method in force after an automatic switch: the
\* flag is set and failures have been counted since the last override.
AfterAutoSwitch ==
    variant = "alt" /\ ios /\ useAlternativeRecording /\ recordingFailureCount > 0

C19_OverrideForcesMode ==
    [][/\ switched' = "manual"
          => /\ useAlternativeRecording' = ~useAlternativeRecording
             /\ recordingFailureCount' = 0
       /\ variant = "alt" /\ attempt' = "chunked" => ~useAlternativeRecording
       /\ variant = "alt" /\ attempt' = "manual" /\ switched' # "auto"
          => useAlternativeRecording]_vars

\* The hook is idle: no recording and no round is shown as under way.
IdleReady == ~isRecording /\ ~isLoading

\* C20: after a step that reported a failure the hook comes to be idle.
C20_FailureLeadsToIdle == toastError ~> IdleReady

\* C21: a round that fails shows an error notification and speaks the
\* apology in the language of the profile as it is then.
C21_FailureApologises ==
    [][\A r \in RoundIds :
          Fails(r) => /\ toastError'
                      /\ voiced'.what = "apology"
                      /\ voiced'.lang = settings'.language]_vars

\* C22: in a voice round the chat request is issued only in the step that
\* handles a transcription response with a success status and a text that is
\* not blank; any other transcription response ends the round with no chat
\* request.
C22_ChatAfterTranscript ==
    [][\A r \in RoundIds :
          /\ rounds'[r].kind = "voice" /\ rounds'[r].pc = "chat" /\ rounds[r].pc # "chat"
             => /\ rounds[r].pc = "stt"
                /\ heard'.status = "ok"
                /\ \E i \in 1..Len(heard'.text) : heard'.text[i] # " "
          /\ rounds[r].pc = "stt" /\ rounds'[r].pc # "stt"
             /\ ~(/\ heard'.status = "ok"
                  /\ \E i \in 1..Len(heard'.text) : heard'.text[i] # " ")
             => rounds'[r].pc = "failed"]_vars

\* A transcript of nothing but spaces has ended a round.
C22_Witness ==
    /\ heard.status = "ok"
    /\ Len(heard.text) > 0
    /\ \E r \in RoundIds : rounds[r].pc = "failed"

\* The transcription request of a recording, or the chat request of a round,
\* is sent in this step.
RequestSent ==
    \/ \E k \in RecIds : submitted'[k] > submitted[k]
    \/ \E r \in RoundIds : rounds'[r].pc = "chat" /\ rounds[r].pc # "chat"

\* C23: while neither the environment nor the settings form holds an API key,
\* no press starts a recording, no round is started, and no request is sent to
\* the transcription or the chat endpoint.
C23_NoKeyNoRequest ==
    [][ApiKey(envKey, settings.apiKey) = ""
          => /\ ~(isPressed' /\ ~isPressed)
             /\ \A r \in RoundIds :
                   rounds[r].pc = "none" /\ rounds'[r].pc # "none"
                      => rounds'[r].kind = "voice"
             /\ ~RequestSent]_vars

\* C24: a request of a round that sees a key in the environment and a key in
\* the settings form is authorized with the key of the settings form.
C24_FormKeyOverrides ==
    \A r \in RoundIds :
        /\ rounds[r].pc \in {"stt", "chat"}
        /\ envKey # ""
        /\ rounds[r].cl.apiKey # ""
        => Authorization(St, rounds[r]) = rounds[r].cl.apiKey

\* C25: a round that succeeds voices its reply once: a response without audio
\* ends the round with the reply text spoken by speech synthesis; a response
\* with audio speaks nothing while the audio is handed to playback, and the
\* round then ends either with the audio playing or, when play() is rejected,
\* with the reply text spoken; the reply is voiced in no other step.
C25_OneVoiceChannel ==
    [][/\ \A r \in RoundIds :
             /\ rounds[r].pc = "chat" /\ rounds'[r].pc = "done"
                => voiced'.what = "reply"
             /\ rounds[r].pc = "chat" /\ rounds'[r].pc = "play"
                => voiced'.what = "none"
             /\ rounds[r].pc = "play" /\ rounds'[r].pc # "play"
                => rounds'[r].pc = "done" /\ voiced'.what \in {"audio", "fallback"}
       /\ voiced'.what \in {"audio", "fallback"}
             => \E r \in RoundIds : rounds[r].pc = "play" /\ rounds'[r].pc = "done"
       /\ voiced'.what = "reply"
             => \E r \in RoundIds : rounds[r].pc = "chat" /\ rounds'[r].pc = "done"]_vars

C25_Witness ==
    /\ voiced.what = "fallback"
    /\ \E r \in RoundIds : rounds[r].pc = "done" /\ rounds[r].kind = "voice"

\* A startRecording call that was awaiting the microphone continues in this step.
Resumes(k) == recs[k].pc \in {"await1", "await2"} /\ recs'[k].pc # recs[k].pc

\* getUserMedia hands over a stream in this step.
Acquired == \E n \in StreamIds : streams[n] = "none" /\ streams'[n] = "live"

\* C26: whenever startRecording comes to construct an encoder, the stream held
\* is present and live; a press that finds the held stream missing or ended
\* constructs nothing before a stream has been acquired; and a call whose
\* acquisition fails constructs no encoder and leaves isRecording false.
C26_EncoderOnHealthyStream ==
    [][/\ attempt' # "none"
             => streamRef' # 0 /\ streams'[streamRef'] = "live"
       /\ \A k \in RecIds :
             /\ recs'[k].pc \in {"rec", "alt"} /\ recs[k].pc \notin {"rec", "alt"}
                => recs'[k].stream # 0 /\ streams'[recs'[k].stream] = "live"
             /\ recs[k].pc = "none" /\ recs'[k].pc # "none" /\ ~Healthy(St)
                => recs'[k].pc \in {"await1", "await2"} /\ attempt' = "none"
             /\ Resumes(k) /\ (~Acquired \/ attempt' = "none")
                => /\ attempt' = "none"
                   /\ recs'[k].pc = "none"
                   /\ mediaRecorderRef' = mediaRecorderRef
                   /\ altRecorderRef' = altRecorderRef
                   /\ ~isRecording']_vars

C26_Witness ==
    /\ attempt \in {"chunked", "manual", "fallback"}
    /\ ~ios
    /\ ~released
    /\ initPending = 1
    /\ streams[1] = "ended"
    /\ \E k \in RecIds : recs[k].pc \in {"rec", "alt"} /\ recs[k].stream = 2

\* C27: once the page has loaded the persisted profile, the settings have no
\* field besides name, age, gender, language and apiKey, and localStorage
\* holds the settings.
C27_UnknownFieldsDropped ==
    mounted => /\ DOMAIN settings \subseteq KnownFields
               /\ storage = Item(settings)

\* C28: the voice of a chat request is shimmer for the gender girl, echo for
\* boy and alloy for other, the gender being that of the profile the round
\* runs with; two requests for the same gender ask for the same voice,
\* whether the round is a voice round or a random round.
C28_VoiceFromGender ==
    /\ \A r \in RoundIds :
          rounds[r].pc = "chat"
             => rounds[r].voice = CASE rounds[r].cl.gender = "girl" -> "shimmer"
                                    [] rounds[r].cl.gender = "boy" -> "echo"
                                    [] rounds[r].cl.gender = "other" -> "alloy"
    /\ \A r1, r2 \in RoundIds :
          /\ rounds[r1].voice # "none" /\ rounds[r2].voice # "none"
          /\ rounds[r1].cl.gender = rounds[r2].cl.gender
          => rounds[r1].voice = rounds[r2].voice

C28_Witness ==
    \E r1, r2 \in RoundIds :
        /\ rounds[r1].pc = "chat" /\ rounds[r1].kind = "voice"
        /\ rounds[r2].pc = "chat" /\ rounds[r2].kind = "random"
        /\ rounds[r1].cl.gender = "other"
        /\ rounds[r2].cl.gender = "other"

\* C29: the file encodeWavFile returns for N samples has 44 + 2N bytes; its
\* header declares the RIFF size 36 + 2N, the format tag 1, 1 channel, the
\* sample rate of the capture context, the byte rate twice the sample rate,
\* the block align 2, 16 bits per sample and the data size 2N; and every
\* sample is stored as the number computed for it, which lies in
\* -32768..32767.
C29_WavLayout ==
    encoded.file # NoFile =>
        LET N == Len(encoded.samples)
            file == encoded.file
        IN  /\ file.byteLength = 44 + 2 * N
            /\ file.riffSize = 36 + 2 * N
            /\ file.format = 1
            /\ file.channels = 1
            /\ file.sampleRate = encoded.sampleRate
            /\ file.byteRate = 2 * encoded.sampleRate
            /\ file.blockAlign = 2
            /\ file.bitsPerSample = 16
            /\ file.dataSize = 2 * N
            /\ Len(file.data) = N
            /\ \A i \in 1..N :
                  /\ file.data[i] \in -32768..32767
                  /\ file.data[i] = toPcm(encoded.samples[i])
                  /\ encoded.samples[i].v >= 1112 => file.data[i] = 32767
                  /\ encoded.samples[i].v <= -1112 => file.data[i] = -32768

C29_Witness ==
    /\ encoded.file # NoFile
    /\ Len(encoded.samples) >= 2
    /\ encoded.samples[1] = Float(2000)
    /\ encoded.samples[2] = Float(-2000)
    /\ encoded.file.data[1] = 32767
    /\ encoded.file.data[2] = -32768

\* C30: after a step, the stored conversation holds no turn that a clear has
\* removed, and the chat request a round sends in the step carries none,
\* whatever was under way when the conversation was cleared.
C30_ClearedTurnsStayGone ==
    [][/\ Turns(conversationMessages') \cap cleared' = {}
       /\ \A r \in RoundIds :
             rounds'[r].pc = "chat" /\ rounds[r].pc # "chat"
                => Turns(ChatMessages(rounds'[r], r)) \cap cleared' = {}]_vars

\* The callback of the pending reset timer runs in this step.
TimerFires == mounted' /\ conversationTimeout >= 0 /\ conversationTimeout' = -1

\* C31: when the reset timer a successful round armed fires, no round having
\* succeeded since, the conversation is empty afterwards.
C31_TimerEmptiesConversation ==
    [][TimerFires => conversationMessages' = <<>>]_vars

\* C32: a round that succeeds replaces the pending reset timer by one armed
\* now and sets the last-interaction time to now; a round that fails leaves
\* the pending timer and the last-interaction time as they were.
C32_OnlySuccessRearms ==
    [][\A r \in RoundIds :
          /\ Commits(r) /\ ~Fails(r)
             => conversationTimeout' = now' /\ lastInteractionTime' = now'
          /\ Fails(r)
             => /\ conversationTimeout' = conversationTimeout
                /\ lastInteractionTime' = lastInteractionTime]_vars

\* No recording is shown as under way and no encoder reads the microphone.
Stopped == ~isRecording /\ \A k \in RecIds : ~Reading(recs[k])

\* The press has been answered and released and nothing is left to happen:
\* no startRecording awaits the microphone, no timer and no recorder event is
\* pending.
Settled ==
    /\ ~isPressed
    /\ \E k \in RecIds : recs[k].pc # "none"
    /\ \A k \in RecIds : recs[k].pc \notin {"await1", "await2"}
    /\ initPending = 0
    /\ Quiet(St)

\* C33: a press and its release, in whatever order the release and the
\* answer of the microphone arrive, end with isRecording false and no encoder
\* capturing: once nothing is left to happen, that is the state.
C33_TapEndsStopped == Settled => Stopped

\* A random-conversation round begins in this step.
RandomRoundBegins ==
    \E r \in RoundIds :
        rounds[r].pc = "none" /\ rounds'[r].pc # "none" /\ rounds'[r].kind = "random"

\* C34: while a recording is in progress or a round is being processed, no
\* call of startRandomConversation begins a round: it sends no request and
\* changes nothing.
C34_RandomGuarded ==
    [][isRecording \/ isLoading => ~RandomRoundBegins]_vars

\* No recording is in progress: no startRecording awaits the microphone, no
\* encoder captures, and no stop is under way.
NoRecordingInProgress ==
    /\ \A k \in RecIds :
          /\ recs[k].pc \notin {"await1", "await2", "rec", "stopped"}
          /\ ~Reading(recs[k])
    /\ stopTimers = 0

\* C35: a release that calls stopRecording while no recording is in progress
\* submits nothing, starts no round and notifies nothing; it leaves
\* isRecording false and everything else of the recording as it was.
C35_IdleStopDoesNothing ==
    [][NoRecordingInProgress /\ Release
          => /\ submitted' = submitted
             /\ rounds' = rounds
             /\ isLoading' = isLoading
             /\ recs' = recs
             /\ stopTimers' = stopTimers
             /\ ~toastError'
             /\ ~isRecording']_vars

\* C36: when the content of the chat response is null and the response
\* carries an audio transcript, the content of the assistant turn stored for
\* the round is the transcript.
C36_TranscriptStored ==
    \A r \in RoundIds :
        /\ rounds[r].pc \in Committed
        /\ rounds[r].message.content = Null
        /\ rounds[r].message.id
        /\ rounds[r].message.transcript = "transcript"
        => rounds[r].reply = "transcript"

\* The turns alternate, a user turn first and an assistant turn last.
Alternates(messages) ==
    /\ Len(messages) % 2 = 0
    /\ \A i \in 1..Len(messages) :
          messages[i].role = IF i % 2 = 1 THEN "user" ELSE "assistant"

\* The system turn is the first message and no other.
SystemFirstOnly(messages) ==
    /\ messages # <<>>
    /\ messages[1].role = "system"
    /\ \A i \in 2..Len(messages) : messages[i].role # "system"

\* C37: the stored conversation has even length, alternates user and
\* assistant turns starting with a user turn and holds no system turn; the
\* messages of every chat request begin with the system turn and hold no
\* other.
C37_TurnsAlternate ==
    /\ Alternates(conversationMessages)
    /\ \A r \in RoundIds :
          rounds[r].pc = "chat" => SystemFirstOnly(ChatMessages(rounds[r], r))

\* A chat request continues a stored conversation of two turns, after which
\* four turns are stored.
C37_Witness ==
    /\ Len(conversationMessages) = 4
    /\ \E r \in RoundIds :
          /\ rounds[r].pc \in Committed
          /\ rounds[r].kind = "voice"
          /\ Len(rounds[r].before) = 2
====
